---------------------------- MODULE Spec2Model ----------------------------
(***************************************************************************)
(* A model of the event-manager engine (src/event_manager/event_manager.py *)
(* with its FileWatcher, src/event_manager/file_watch.py, and the crontab  *)
(* of src/eventmanager/cron.py).                                           *)
(*                                                                         *)
(* Threads.  The engine has one asyncio event-loop thread, on which the N  *)
(* worker coroutines, read_cron_event and poll_file_events are scheduled   *)
(* cooperatively, and one background watcher thread (FileWatcher).         *)
(* read_file_event is a plain function: between its first and its last     *)
(* statement no coroutine runs (pc # "idle" below), but the watcher thread *)
(* and the file system go on.                                              *)
(*                                                                         *)
(* The asyncio.TimeoutError raised by asyncio.wait_for is taken to be the  *)
(* builtin TimeoutError the worker catches (Python >= 3.11).               *)
(***************************************************************************)
EXTENDS Naturals, Sequences, FiniteSets, Bags, TLC

\* ------------------------------------------------------------------ bounds
\* -c, GeneralConfig.concurrent of the modelled runs
NumWorkers == 2
\* how many times the environment writes or removes a file, or edits the config
MaxFsEvents == 2

\* ------------------------------------------------------------- file system
\* str(pathname) of the paths of the model; the config file is -f
ConfPath == "etc/conf"
DataPaths == {"data/x", "data/z"}
AllPaths == DataPaths \cup {ConfPath}
\* a directory that programs create and remove inside the watched directory
DirPaths == {"data/sub"}

\* the path components of str(pathname)
Tokens(p) ==
    CASE p = "data/x" -> <<"data", "x">>
      [] p = "data/z" -> <<"data", "z">>
      [] p = "etc/conf" -> <<"etc", "conf">>
      [] p = "data/sub" -> <<"data", "sub">>

\* pathlib's .parent, relative to the watch root -d ("." is the root itself)
Parent(p) == Tokens(p)[1]
WatchRoot == "."
\* the directories below the watch root (the config file lives elsewhere)
UnderRoot == {"data"}
\* Path.is_dir() of a directory of the model
IsDir(d) == d \in {"data", "etc", WatchRoot}

\* ---------------------------------------------------------------- patterns
\* A trigger's File is a regular expression over the path. A pattern is a
\* sequence of elements, each matching one path component: a literal, or a
\* capture group (?P<name>alt) / (alt) over a set of alternatives.
Lit(tok) == [grp |-> FALSE, name |-> "", alt |-> {tok}]
Grp(name, alt) == [grp |-> TRUE, name |-> name, alt |-> alt]

\* re.Pattern.match(str(pathname)): anchored at the start only
Match(pattern, p) ==
    /\ Len(pattern) <= Len(Tokens(p))
    /\ \A i \in 1..Len(pattern) : Tokens(p)[i] \in pattern[i].alt

\* the indexes of the capture groups of a pattern, in order
GroupIndexes(pattern) ==
    SelectSeq([i \in 1..Len(pattern) |-> i], LAMBDA i : pattern[i].grp)

\* match.groups()
Groups(pattern, p) ==
    [k \in 1..Len(GroupIndexes(pattern)) |-> Tokens(p)[GroupIndexes(pattern)[k]]]

\* match.groupdict()
GroupDict(pattern, p) ==
    LET named == {i \in 1..Len(pattern) : pattern[i].grp /\ pattern[i].name # ""}
    IN  [n \in {pattern[i].name : i \in named} |->
            Tokens(p)[CHOOSE i \in named : pattern[i].name = n]]

\* str(i) of a group number
IdxKey(i) == CASE i = 1 -> "1" [] i = 2 -> "2" [] i = 3 -> "3"

\* the mapping of a matched trigger: {**groupdict, **positional, "file": p};
\* in a dict display a later key overrides an earlier one
MkMapping(pattern, p) ==
    LET gs == Groups(pattern, p)
        positional == [k \in {IdxKey(i) : i \in 1..Len(gs)} |->
                          gs[CHOOSE i \in 1..Len(gs) : IdxKey(i) = k]]
    IN  ("file" :> p) @@ positional @@ GroupDict(pattern, p)

\* EventItem.mapping = None
NoMapping == [k \in {} |-> ""]

\* ------------------------------------------------------- config documents
NoFile == <<>>

\* one entry of the Events section of the yaml document
Entry(name, hasProcess, timeout, success, fail, file, backup, isCron) ==
    [name |-> name, hasProcess |-> hasProcess, timeout |-> timeout,
     success |-> success, fail |-> fail, file |-> file, backup |-> backup,
     cron |-> isCron]

\* File: data/(?P<name>x|y)
PatNamed == <<Lit("data"), Grp("name", {"x", "y"})>>
\* File: data/(x)
PatX == <<Lit("data"), Grp("", {"x"})>>
\* File: etc/(conf), a pattern that matches the config file itself
PatConf == <<Lit("etc"), Grp("", {"conf"})>>

\* The documents the config file can hold. parses = FALSE: yaml.safe_load or
\* yml_conf["Events"] raises.
\*  main: A (file trigger with backup and timeout) chains to B on success and
\*        to C on failure, B chains to C, C names a fail event that is not
\*        defined; D is a second trigger matching data/x.
\*  cron: one file trigger and one cron rule.
\*  crononly: only a cron rule.
\*  bad: not a valid document.
\*  watchconf: one file trigger, with backup, whose pattern matches the
\*        config file.
\*  notrigger: one event with a Process and neither File nor Cron.
Docs ==
    [main |-> [parses |-> TRUE, entries |-> <<
        Entry("A", TRUE, TRUE, "B", "C", PatNamed, TRUE, FALSE),
        Entry("D", TRUE, FALSE, "", "", PatX, FALSE, FALSE),
        Entry("B", TRUE, TRUE, "C", "", NoFile, FALSE, FALSE),
        Entry("C", TRUE, FALSE, "", "Z", NoFile, FALSE, FALSE)>>],
     cron |-> [parses |-> TRUE, entries |-> <<
        Entry("D", TRUE, FALSE, "", "", PatX, FALSE, FALSE),
        Entry("E", TRUE, FALSE, "", "", NoFile, FALSE, TRUE)>>],
     crononly |-> [parses |-> TRUE, entries |-> <<
        Entry("E", TRUE, FALSE, "", "", NoFile, FALSE, TRUE)>>],
     bad |-> [parses |-> FALSE, entries |-> <<>>],
     watchconf |-> [parses |-> TRUE, entries |-> <<
        Entry("F", TRUE, FALSE, "", "", PatConf, TRUE, FALSE)>>],
     notrigger |-> [parses |-> TRUE, entries |-> <<
        Entry("G", TRUE, FALSE, "", "", NoFile, FALSE, FALSE)>>]]

DocNames == {"main", "cron", "crononly", "bad", "watchconf", "notrigger"}

\* ------------------------------------------------------------- data model
\* EventItem(process, timeout, success, fail): the template of an event
EventItem(e) ==
    [process |-> e.name, timeout |-> e.timeout, success |-> e.success,
     fail |-> e.fail, mapping |-> NoMapping]

\* TriggerItem(file, event, backup)
TriggerItem(e) == [pattern |-> e.file, event |-> e.name, backup |-> e.backup]

\* dataclasses.replace(item, mapping=mapping)
Replace(item, mapping) == [item EXCEPT !.mapping = mapping]

\* the event local of a worker that has dequeued nothing yet
NoEvent ==
    [process |-> "", timeout |-> FALSE, success |-> "", fail |-> "",
     mapping |-> NoMapping]

\* a local variable that was never assigned
Unbound == "<unbound>"

\* ------------------------------------------------------------ load_config
\* FileWatcher(): no watch, not recursive, no known directory
NewFileWatcher == [watch_dirs |-> {}, recursive |-> FALSE, known_dirs |-> {}]

\* FileWatcher.add_watch(directory, rec_flag)
AddWatch(fw, directory, rec_flag) ==
    [watch_dirs |-> fw.watch_dirs \cup {directory},
     recursive |-> fw.recursive \/ rec_flag,
     known_dirs |-> fw.known_dirs \cup {directory}]

\* crontab.add_rule: the key of the SortedDict is the generator object that
\* crule.get_next_time() returns; a first key is inserted without a
\* comparison, a second one is compared with it and raises TypeError.
AddRule(acc, name) ==
    IF acc.rules = <<>>
    THEN [acc EXCEPT !.rules = <<name>>]
    ELSE [acc EXCEPT !.raised = TRUE]

\* trigger.file.parent: the directory the pattern starts with
PatternParent(pattern) == CHOOSE d \in pattern[1].alt : TRUE

\* one iteration of the loop over yml_conf["Events"].items()
LoadEntry(acc, e, recursive) ==
    IF ~e.hasProcess THEN acc
    ELSE LET a1 == [acc EXCEPT !.events = (e.name :> EventItem(e)) @@ acc.events]
         IN  IF e.file # NoFile
             THEN LET a2 == [a1 EXCEPT !.triggers = Append(a1.triggers, TriggerItem(e))]
                  IN  IF ~recursive /\ IsDir(PatternParent(e.file))
                      THEN [a2 EXCEPT !.fw = AddWatch(a2.fw, PatternParent(e.file), FALSE)]
                      ELSE a2
             ELSE IF e.cron THEN AddRule(a1, e.name)
             ELSE a1

RECURSIVE LoadEntries(_, _, _)
LoadEntries(acc, es, recursive) ==
    IF es = <<>> \/ acc.raised THEN acc
    ELSE LoadEntries(LoadEntry(acc, Head(es), recursive), Tail(es), recursive)

\* EventManager.load_config on the document doc, with the watcher's watch
\* set fw and the crontab's rules as they are when it is called. The result
\* holds the new triggers, events, rules and watch set, and raised.
LoadConfig(doc, fw, rules, cfg) ==
    LET start == [triggers |-> <<>>, events |-> NoMapping, rules |-> rules,
                  fw |-> fw, raised |-> FALSE]
    IN  IF ~Docs[doc].parses THEN [start EXCEPT !.raised = TRUE]
        ELSE LET a1 == LoadEntries(start, Docs[doc].entries, cfg.recursive)
                 a2 == IF cfg.recursive /\ ~a1.raised
                       THEN [a1 EXCEPT !.fw = AddWatch(a1.fw, WatchRoot, TRUE)]
                       ELSE a1
             IN  IF a2.raised THEN a2
                 ELSE IF a2.fw.watch_dirs = {} THEN [a2 EXCEPT !.raised = TRUE]
                 ELSE IF cfg.refresh
                      THEN [a2 EXCEPT !.fw = AddWatch(a2.fw, Parent(ConfPath), FALSE)]
                      ELSE a2


\* ------------------------------------------------------------------ state
VARIABLES
    phase,          \* "failed" (load_config raised in __init__), "constructed",
                    \* "running" (inside run()), "crashed" (run() raised)
    config,         \* GeneralConfig: refresh, delete, recursive, concurrent
    disk,           \* the document the config file holds
    files,          \* the data files and directories that exist
    fsevents,       \* how many file-system events the environment has made
    triggers,       \* EventManager.triggers
    events,         \* EventManager.events
    rules,          \* crontab.rules: the event names, one key per rule
    filewatcher,    \* FileWatcher.watch_dirs (= the keys of watch_dir), .recursive
                    \* and ._known_dirs
    changes,        \* FileWatcher._changes
    lock,           \* FileWatcher._lock: "free", or "read" while the read()
                    \* generator is suspended at its yield
    stop_event,     \* FileWatcher._stop_event
    watcher_thread, \* the thread of _watch_loop: state, and the directories
                    \* and recursive flag watch() was called with
    raw,            \* the changes watch() has seen and _watch_loop has not handled
    pc,             \* where the event-loop thread is inside read_file_event
    cur,            \* the (status, pathname) read_file_event is handling
    queue,          \* EventManager.queue
    workers,        \* the worker coroutines, a bag: they have no identity. Of
                    \* each its state ("waiting" in queue.get(), "running" a
                    \* command, "dead") and its locals event, stats, next_event
    nrunning        \* how many shell commands are running

vars == <<phase, config, disk, files, fsevents, triggers, events, rules,
          filewatcher, changes, lock, stop_event, watcher_thread, raw, pc, cur,
          queue, workers, nrunning>>

envVars == <<disk, files, fsevents>>
confVars == <<config, triggers, events, rules>>
workerVars == <<workers, nrunning>>
watchVars == <<filewatcher, stop_event, watcher_thread>>

NoRecord == [status |-> "", path |-> ""]

\* ------------------------------------------------------------------- Init
\* The runs of the model: event-manager start -f <doc> [-r] [-a] [-e] -c N.
\* Every document is started with every combination of flags; the main
\* document is run recursively (-r) only with -a and -e.
CommandLines ==
    {cl \in [doc : DocNames, refresh : BOOLEAN, delete : BOOLEAN, recursive : BOOLEAN] :
        (cl.doc = "main" /\ cl.recursive) => (cl.refresh /\ cl.delete)}

\* The state after EventManager(GeneralConfig(...)): __init__ has called
\* load_config on the document of the config file.
Init ==
    \E cl \in CommandLines :
        LET cfg == [refresh |-> cl.refresh, delete |-> cl.delete,
                    recursive |-> cl.recursive, concurrent |-> NumWorkers]
            doc == cl.doc
            r == LoadConfig(doc, NewFileWatcher, <<>>, cfg)
        IN  /\ phase = IF r.raised THEN "failed" ELSE "constructed"
            /\ config = cfg
            /\ disk = doc
            /\ triggers = r.triggers
            /\ events = r.events
            /\ rules = r.rules
            /\ filewatcher = r.fw
    /\ files = {}
    /\ fsevents = 0
    /\ changes = <<>>
    /\ lock = "free"
    /\ stop_event = FALSE
    /\ watcher_thread = [state |-> "none", dirs |-> {}, recursive |-> FALSE]
    /\ raw = <<>>
    /\ pc = "idle"
    /\ cur = NoRecord
    /\ queue = <<>>
    /\ workers = EmptyBag
    /\ nrunning = 0

\* -------------------------------------------------------------------- run
\* a worker coroutine before its first queue.get()
NewWorker ==
    [state |-> "waiting", event |-> NoEvent, stats |-> Unbound, next_event |-> Unbound]

\* [self.worker() for _ in range(self.config.concurrent)]
SpawnWorkers(n) == IF n = 0 THEN EmptyBag ELSE (NewWorker :> n)

\* EventManager.run: FileWatcher.start() starts the watcher thread on the
\* registered directories, then the coroutines are gathered. In the first
\* pass of the loop every worker suspends in queue.get() and read_cron_event
\* enters crontab.generate(): with a rule pending it pops the rule and
\* evaluates at - datetime.now() on the generator object that is its key,
\* which raises TypeError out of gather; with none it sleeps.
Run ==
    /\ phase = "constructed"
    /\ stop_event' = FALSE
    /\ watcher_thread' = [state |-> "alive", dirs |-> filewatcher.watch_dirs,
                          recursive |-> filewatcher.recursive]
    /\ workers' = SpawnWorkers(config.concurrent)
    /\ IF rules # <<>>
       THEN phase' = "crashed" /\ rules' = Tail(rules)
       ELSE phase' = "running" /\ rules' = rules
    /\ UNCHANGED <<config, disk, files, fsevents, triggers, events, filewatcher,
                   changes, lock, raw, pc, cur, queue, nrunning>>

\* ------------------------------------------------------------ environment
\* whether the running watch() call reports a change of path p
Observed(p) ==
    /\ watcher_thread.state = "alive"
    /\ \/ Parent(p) \in watcher_thread.dirs
       \/ /\ watcher_thread.recursive
          /\ WatchRoot \in watcher_thread.dirs
          /\ Parent(p) \in UnderRoot

Report(change, p) ==
    IF Observed(p) THEN Append(raw, [change |-> change, path |-> p]) ELSE raw

\* a program creates or rewrites a data file
WriteFile(p) ==
    /\ phase = "running"
    /\ fsevents < MaxFsEvents
    /\ fsevents' = fsevents + 1
    /\ files' = files \cup {p}
    /\ raw' = Report(IF p \in files THEN "modified" ELSE "added", p)
    /\ UNCHANGED <<phase, disk, confVars, filewatcher, changes, lock, stop_event,
                   watcher_thread, pc, cur, queue, workerVars>>

\* a program removes a data file (Change.deleted of a file makes no record)
RemoveFile(p) ==
    /\ phase = "running"
    /\ fsevents < MaxFsEvents
    /\ p \in files
    /\ fsevents' = fsevents + 1
    /\ files' = files \ {p}
    /\ UNCHANGED <<phase, disk, confVars, filewatcher, changes, lock, stop_event,
                   watcher_thread, raw, pc, cur, queue, workerVars>>

\* a program creates the directory d
MakeDir(d) ==
    /\ phase = "running"
    /\ fsevents < MaxFsEvents
    /\ d \notin files
    /\ fsevents' = fsevents + 1
    /\ files' = files \cup {d}
    /\ raw' = Report("added", d)
    /\ UNCHANGED <<phase, disk, confVars, filewatcher, changes, lock, stop_event,
                   watcher_thread, pc, cur, queue, workerVars>>

\* a program removes the directory d
RemoveDir(d) ==
    /\ phase = "running"
    /\ fsevents < MaxFsEvents
    /\ d \in files
    /\ fsevents' = fsevents + 1
    /\ files' = files \ {d}
    /\ raw' = Report("deleted", d)
    /\ UNCHANGED <<phase, disk, confVars, filewatcher, changes, lock, stop_event,
                   watcher_thread, pc, cur, queue, workerVars>>

\* what the user may save: a valid document, a document that does not load,
\* a document with a cron rule
EditDocs == {"main", "bad", "cron"}

\* the user saves the config file; without -a nothing reads it again
EditConfig(doc) ==
    /\ phase = "running"
    /\ config.refresh
    /\ fsevents < MaxFsEvents
    /\ fsevents' = fsevents + 1
    /\ disk' = doc
    /\ raw' = Report("modified", ConfPath)
    /\ UNCHANGED <<phase, files, confVars, filewatcher, changes, lock, stop_event,
                   watcher_thread, pc, cur, queue, workerVars>>

\* --------------------------------------------------------- watcher thread
\* Path.exists() of a path of the model
Exists(p) == p = ConfPath \/ p \in files
\* Path.is_dir() and Path.is_file() of a path of the model
IsSubDir(p) == p \in DirPaths /\ p \in files
IsFile(p) == p \notin DirPaths /\ Exists(p)

\* the status _watch_loop gives a change: an added path is a "mkdir" if it
\* is a directory now and a "file" otherwise, a modified path is a "file"
\* only if it is a file now, a deleted path is a "rmdir" only if it is a
\* known directory
Status(r) ==
    CASE r.change = "added" -> IF IsSubDir(r.path) THEN "mkdir" ELSE "file"
      [] r.change = "modified" -> IF IsFile(r.path) THEN "file" ELSE ""
      [] r.change = "deleted" ->
            IF r.path \in filewatcher.known_dirs THEN "rmdir" ELSE ""

\* _known_dirs after the status of the change r has been determined
KnownDirs(r) ==
    CASE Status(r) = "mkdir" -> filewatcher.known_dirs \cup {r.path}
      [] Status(r) = "rmdir" -> filewatcher.known_dirs \ {r.path}
      [] OTHER -> filewatcher.known_dirs

\* one iteration of the loop over the changes in _watch_loop; the append
\* needs the lock
WatchLoop ==
    /\ watcher_thread.state = "alive"
    /\ raw # <<>>
    /\ LET r == Head(raw)
       IN  IF Status(r) = ""
           THEN changes' = changes
           ELSE /\ lock = "free"
                /\ changes' = Append(changes, [status |-> Status(r), path |-> r.path])
    /\ filewatcher' = [filewatcher EXCEPT !.known_dirs = KnownDirs(Head(raw))]
    /\ raw' = Tail(raw)
    /\ UNCHANGED <<phase, envVars, confVars, stop_event, watcher_thread, lock, pc,
                   cur, queue, workerVars>>

\* watch() sees the stop event and ends; the thread returns
WatcherExit ==
    /\ watcher_thread.state = "alive"
    /\ stop_event
    /\ watcher_thread' = [watcher_thread EXCEPT !.state = "exited"]
    /\ raw' = <<>>
    /\ UNCHANGED <<phase, envVars, confVars, filewatcher, stop_event, changes, lock,
                   pc, cur, queue, workerVars>>

\* ----------------------------------------------------------- polling loop
\* (mutant) read() pops the newest record, self._changes.pop()
ReadNewest ==
    /\ phase = "running"
    /\ pc \in {"idle", "reading"}
    /\ lock = "free"
    /\ IF changes = <<>>
       THEN /\ pc = "reading"
            /\ pc' = "idle"
            /\ UNCHANGED <<changes, lock, cur>>
       ELSE /\ cur' = changes[Len(changes)]
            /\ changes' = SubSeq(changes, 1, Len(changes) - 1)
            /\ lock' = "read"
            /\ pc' = "handle"
    /\ UNCHANGED <<phase, envVars, confVars, watchVars, raw, queue, workerVars>>

\* FileWatcher.read, one iteration: take the lock; with nothing buffered
\* release it and return (poll_file_events then sleeps), else pop a record
\* and yield it with the lock still held
Read ==
    /\ phase = "running"
    /\ pc \in {"idle", "reading"}
    /\ lock = "free"
    /\ IF changes = <<>>
       THEN /\ pc = "reading"
            /\ pc' = "idle"
            /\ UNCHANGED <<changes, lock, cur>>
       ELSE /\ cur' = Head(changes)
            /\ changes' = Tail(changes)
            /\ lock' = "read"
            /\ pc' = "handle"
    /\ UNCHANGED <<phase, envVars, confVars, watchVars, raw, queue, workerVars>>

\* shutil.copyfile(pathname, backup) raises unless the source is a file
CopyOk(p) == IsFile(p)

RECURSIVE MatchTriggers(_, _, _)
\* the loop over self.triggers for the file p: every matching trigger puts
\* an instance of its event, then makes its backup; acc.raised when
\* copyfile raised
MatchTriggers(ts, p, acc) ==
    IF ts = <<>> \/ acc.raised THEN acc
    ELSE LET t == Head(ts)
         IN  IF Match(t.pattern, p)
             THEN MatchTriggers(Tail(ts), p,
                    [queue |-> Append(acc.queue,
                                 Replace(events[t.event], MkMapping(t.pattern, p))),
                     raised |-> t.backup /\ ~CopyOk(p)])
             ELSE MatchTriggers(Tail(ts), p, acc)

\* whether read_file_event takes the reload branch for the record it holds;
\* pathname.samefile raises FileNotFoundError when pathname is gone
SameFileRaises == config.refresh /\ ~Exists(cur.path)

\* (mutant) the record of the config file is handled like any other file
IsConfAsFile == FALSE

IsConf == config.refresh /\ Exists(cur.path) /\ cur.path = ConfPath

\* read_file_event, the body of the loop for a "file" record
HandleFile ==
    /\ phase = "running"
    /\ pc = "handle"
    /\ cur.status = "file"
    /\ ~IsConf
    /\ IF SameFileRaises
       THEN /\ phase' = "crashed"
            /\ UNCHANGED <<queue, files, lock, pc>>
       ELSE LET r == MatchTriggers(triggers, cur.path, [queue |-> queue, raised |-> FALSE])
            IN  /\ queue' = r.queue
                /\ IF r.raised
                   THEN /\ phase' = "crashed"
                        /\ UNCHANGED <<files, lock, pc>>
                   ELSE /\ files' = IF config.delete /\ IsFile(cur.path)
                                    THEN files \ {cur.path} ELSE files
                        /\ lock' = "free"
                        /\ pc' = "reading"
                        /\ phase' = phase
    /\ UNCHANGED <<disk, fsevents, confVars, watchVars, changes, raw, cur,
                   workerVars>>

\* read_file_event, the body of the loop for a "mkdir" or "rmdir" record:
\* the reload condition is evaluated first, then the directory is logged
\* and, for a "rmdir", discarded from watch_dirs and watch_dir
HandleDir ==
    /\ phase = "running"
    /\ pc = "handle"
    /\ cur.status \in {"mkdir", "rmdir"}
    /\ ~IsConf
    /\ IF SameFileRaises
       THEN /\ phase' = "crashed"
            /\ UNCHANGED <<filewatcher, lock, pc>>
       ELSE /\ filewatcher' =
                  IF cur.status = "rmdir"
                  THEN [filewatcher EXCEPT !.watch_dirs = @ \ {cur.path}]
                  ELSE filewatcher
            /\ lock' = "free"
            /\ pc' = "reading"
            /\ phase' = phase
    /\ UNCHANGED <<envVars, confVars, stop_event, watcher_thread, changes, raw, cur,
                   queue, workerVars>>

\* the reload branch, FileWatcher.reset() -> stop(): set the stop event and
\* join the watcher thread for at most _THREAD_JOIN_TIMEOUT
ResetStop ==
    /\ phase = "running"
    /\ pc = "handle"
    /\ IsConf
    /\ stop_event' = TRUE
    /\ pc' = "reset_clear"
    /\ UNCHANGED <<phase, envVars, confVars, filewatcher, watcher_thread, changes,
                   lock, raw, cur, queue, workerVars>>

\* FileWatcher.reset(), after stop(): clear watch_dirs and watch_dir, then
\* wait for the lock
ResetClear ==
    /\ phase = "running"
    /\ pc = "reset_clear"
    /\ filewatcher' = [filewatcher EXCEPT !.watch_dirs = {}]
    /\ pc' = "reset_lock"
    /\ UNCHANGED <<phase, envVars, confVars, stop_event, watcher_thread, changes,
                   lock, raw, cur, queue, workerVars>>

\* ---------------------------------------------------------------- workers
\* the pool after the worker w has become w2
Becomes(w, w2) == (workers (-) SetToBag({w})) (+) SetToBag({w2})

\* (mutant) the queue hands out its newest instance
WorkerGetNewest(w) ==
    /\ phase = "running"
    /\ pc = "idle"
    /\ w.state = "waiting"
    /\ queue # <<>>
    /\ workers' = Becomes(w, [w EXCEPT !.state = "running",
                                       !.event = queue[Len(queue)]])
    /\ queue' = SubSeq(queue, 1, Len(queue) - 1)
    /\ nrunning' = nrunning + 1
    /\ UNCHANGED <<phase, envVars, confVars, watchVars, changes, lock, raw, pc, cur>>

\* event = await self.queue.get(); create_subprocess_shell(event.sub)
WorkerGet(w) ==
    /\ phase = "running"
    /\ pc = "idle"
    /\ w.state = "waiting"
    /\ queue # <<>>
    /\ workers' = Becomes(w, [w EXCEPT !.state = "running", !.event = Head(queue)])
    /\ queue' = Tail(queue)
    /\ nrunning' = nrunning + 1
    /\ UNCHANGED <<phase, envVars, confVars, watchVars, changes, lock, raw, pc, cur>>

\* getattr(event, stats)
NextEvent(ev, st) == IF st = "success" THEN ev.success ELSE ev.fail

\* (mutant) the next event is put without mapping=event.mapping
ChainInstanceNoMapping(ev, name) == events[name]

\* the instance a worker puts for the next event of ev
ChainInstance(ev, name) == Replace(events[name], ev.mapping)

\* (mutant) the except branch chains like a failure
ChainTimeoutAsFail(q, ev, st) ==
    LET name == IF st = "success" THEN ev.success ELSE ev.fail
    IN  IF name = "" THEN q ELSE Append(q, ChainInstance(ev, name))

\* the queue after the try statement of the worker, for the instance ev that
\* ended with stats st: the except branch puts nothing, the else branch puts
\* the next event if getattr(event, stats) names one
Chain(q, ev, st) ==
    IF st = "Timeout" THEN q
    ELSE IF NextEvent(ev, st) = "" THEN q
    ELSE Append(q, ChainInstance(ev, NextEvent(ev, st)))

\* (mutant) the except branch leaves the process running
KillTreeNoKill(n) == n

\* the command count after the except branch killed the process and its children
KillTree(n) == n - 1

\* the "Next: ..." part of the log entry a worker writes with the locals of
\* w, f"\nNext: {next_event}" if next_event else ""
LogNext(w) == IF w.next_event \in {"", Unbound} THEN "" ELSE w.next_event

\* process.wait() returned with returncode rc
WorkerDone(w, rc) ==
    /\ phase = "running"
    /\ pc = "idle"
    /\ w.state = "running"
    /\ nrunning' = nrunning - 1
    /\ LET st == IF rc # 0 THEN "fail" ELSE "success"
           name == NextEvent(w.event, st)
           w1 == [w EXCEPT !.stats = st, !.next_event = name]
       IN  IF name # "" /\ name \notin DOMAIN events
           THEN \* self.events[next_event] raises KeyError
                /\ workers' = Becomes(w, [w1 EXCEPT !.state = "dead"])
                /\ phase' = "crashed"
                /\ queue' = queue
           ELSE /\ workers' = Becomes(w, [w1 EXCEPT !.state = "waiting"])
                /\ queue' = Chain(queue, w.event, st)
                /\ phase' = phase
    /\ UNCHANGED <<envVars, confVars, watchVars, changes, lock, raw, pc, cur>>

\* asyncio.wait_for raised TimeoutError. The log call then reads next_event,
\* which is unbound until an else branch of this worker has assigned it.
WorkerTimeout(w) ==
    /\ phase = "running"
    /\ pc = "idle"
    /\ w.state = "running"
    /\ w.event.timeout
    /\ nrunning' = KillTree(nrunning)
    /\ queue' = Chain(queue, w.event, "Timeout")
    /\ LET w1 == [w EXCEPT !.stats = "Timeout"]
       IN  IF w.next_event = Unbound
           THEN \* UnboundLocalError
                /\ workers' = Becomes(w, [w1 EXCEPT !.state = "dead"])
                /\ phase' = "crashed"
           ELSE /\ workers' = Becomes(w, [w1 EXCEPT !.state = "waiting"])
                /\ phase' = phase
    /\ UNCHANGED <<envVars, confVars, watchVars, changes, lock, raw, pc, cur>>

\* ------------------------------------------------------------------- Next
EnvNext ==
    \/ \E p \in DataPaths : WriteFile(p)
    \/ \E p \in DataPaths : RemoveFile(p)
    \/ \E d \in DirPaths : MakeDir(d)
    \/ \E d \in DirPaths : RemoveDir(d)
    \/ \E doc \in EditDocs : EditConfig(doc)

WatcherNext == WatchLoop \/ WatcherExit

PollNext == Read \/ HandleFile \/ HandleDir \/ ResetStop \/ ResetClear

WorkerNext ==
    \E w \in BagToSet(workers) :
        \/ WorkerGet(w)
        \/ \E rc \in {0, 1} : WorkerDone(w, rc)
        \/ WorkerTimeout(w)

\* what the event-loop thread can do
LoopNext == Run \/ PollNext \/ WorkerNext

Next == EnvNext \/ WatcherNext \/ LoopNext

Spec == Init /\ [][Next]_vars

\* The event loop runs a ready coroutine and the watcher thread is scheduled;
\* the environment owes nothing.
FairSpec == Spec /\ WF_vars(LoopNext) /\ WF_vars(WatcherNext)

\* ----------------------------------------------------------------- claims
\* the worker w ended its command in this step and is now w2
Ended(w, w2) ==
    /\ w.state = "running"
    /\ w2.state # "running"
    /\ workers' = Becomes(w, w2)

\* how many workers are in state st
CountWorkers(st) ==
    LET S == {w \in BagToSet(workers) : w.state = st}
    IN  BagCardinality([w \in S |-> CopiesIn(w, workers)])

\* read_file_event is inside its reload branch
InReload == pc \in {"reset_clear", "reset_lock"} \/ (pc = "handle" /\ IsConf)

\* C1: with refresh enabled, once the polling loop has read a record for the
\* config file the reload goes through: at every point of it the event-loop
\* thread can take its next step (it does not hang), the engine has not
\* crashed and all N workers are live.
C1_ReloadGoesThrough ==
    (phase = "running" /\ InReload) =>
        /\ ENABLED LoopNext
        /\ CountWorkers("waiting") + CountWorkers("running") = config.concurrent

\* C2: a reload removes nothing from the queue and the instances queued when
\* it starts are dequeued afterwards: with a reload under way and a nonempty
\* queue, the queue is eventually drained (the model enqueues finitely often).
C2_QueuedSurviveReload == (InReload /\ queue # <<>>) ~> (queue = <<>>)

\* C3: reload is all-or-nothing: while the document on disk does not load,
\* the engine keeps running with the watches of the old config in force
\* (the stop event is not set, the watch set is not cleared).
C3_ReloadAllOrNothing ==
    (phase = "running" /\ LoadConfig(disk, NewFileWatcher, <<>>, config).raised)
        => (~stop_event /\ filewatcher.watch_dirs # {} /\ triggers # <<>>)

\* C4: a timed-out instance never enqueues a follow-up: a worker step that
\* ends a command with stats "Timeout" kills the command and leaves the
\* queue as it is, whatever the success and fail names of the instance.
C4_TimeoutNeverChains ==
    [][\A w \in BagToSet(workers), w2 \in BagToSet(workers') :
          (Ended(w, w2) /\ w2.stats = "Timeout") =>
              (queue' = queue /\ nrunning' = nrunning - 1)]_vars

\* a worker that had handled an instance before is back waiting after a
\* timeout of an instance that names a success and a fail event
C4_Witness ==
    \E w \in BagToSet(workers) :
        /\ w.stats = "Timeout"
        /\ w.state = "waiting"
        /\ w.event.success # ""
        /\ w.event.fail # ""

\* C5: a timeout is recovered locally: after a command timed out, also the
\* first one a worker handles, the worker is waiting on the queue again and
\* the engine is running.
C5_TimeoutRecovered ==
    [][\A w \in BagToSet(workers), w2 \in BagToSet(workers') :
          (Ended(w, w2) /\ w2.stats = "Timeout") =>
              (w2.state = "waiting" /\ phase' = "running")]_vars

\* C6: the worker loop never exits on a command's failure: after a nonzero
\* exit, with or without a declared fail event, the worker is waiting on the
\* queue again and N workers are live.
C6_FailureKeepsWorker ==
    [][\A w \in BagToSet(workers), w2 \in BagToSet(workers') :
          (Ended(w, w2) /\ w2.stats = "fail") =>
              (w2.state = "waiting" /\ phase' = "running")]_vars

\* C7: the engine runs exactly N workers, each supervising at most one
\* command, so at most N commands run at once, whatever the queue holds.
C7_ConcurrencyBound ==
    phase \in {"running", "crashed"} =>
        /\ BagCardinality(workers) = config.concurrent
        /\ nrunning = CountWorkers("running")
        /\ nrunning <= config.concurrent

\* all N workers run a command while another instance is ready in the queue
C7_Witness ==
    /\ phase = "running"
    /\ nrunning = NumWorkers
    /\ queue # <<>>

\* C8: chaining preserves the mapping: a worker step that ends a command
\* appends at most one instance, the appended instance carries exactly the
\* mapping of the instance that ended, and nothing is appended when the
\* selected next-event name is empty.
C8_ChainKeepsMapping ==
    [][\A w \in BagToSet(workers), w2 \in BagToSet(workers') :
          Ended(w, w2) =>
              \/ queue' = queue
              \/ /\ w2.stats \in {"success", "fail"}
                 /\ NextEvent(w.event, w2.stats) # ""
                 /\ Len(queue') = Len(queue) + 1
                 /\ SubSeq(queue', 1, Len(queue)) = queue
                 /\ queue'[Len(queue')].mapping = w.event.mapping]_vars

\* a chain of length two: B, itself put by a chain, has succeeded and its
\* follow-up C is in the queue with the mapping of the file that fired A
C8_Witness ==
    \E w \in BagToSet(workers) :
        /\ w.event.process = "B"
        /\ w.stats = "success"
        /\ w.state = "waiting"
        /\ queue # <<>>
        /\ queue[Len(queue)].process = "C"
        /\ queue[Len(queue)].mapping = w.event.mapping
        /\ w.event.mapping = MkMapping(PatNamed, "data/x")

\* C9: on normal completion the follow-up is selected by exit status and put
\* exactly once: exit 0 puts one instance of the event named by success, a
\* nonzero exit one instance of the event named by fail, an empty name none.
C9_FollowUpOnce ==
    [][\A w \in BagToSet(workers), w2 \in BagToSet(workers') :
          (Ended(w, w2) /\ w2.stats \in {"success", "fail"}) =>
              LET name == NextEvent(w.event, w2.stats)
              IN  IF name = "" THEN queue' = queue
                  ELSE /\ name \in DOMAIN events
                       /\ queue' = Append(queue, Replace(events[name], w.event.mapping))]_vars

\* the instances a file record for p must put: one per trigger whose pattern
\* matches p, in registration order, with the groups of the match and file = p
ExpectedInstances(p) ==
    LET ms == SelectSeq(triggers, LAMBDA t : Match(t.pattern, p))
    IN  [i \in 1..Len(ms) |->
            [events[ms[i].event] EXCEPT !.mapping =
                ("file" :> p) @@ [k \in {"1"} |-> Tokens(p)[2]]
                    @@ GroupDict(ms[i].pattern, p)]]

\* C10: handling a file record for p puts exactly one instance per trigger
\* whose pattern matches p, all of them, in registration order, each with
\* the capture groups of the match and file = p; no match puts nothing.
\* Stated for the runs without refresh, where no record is a reload.
C10_EveryMatchEnqueues ==
    [][(/\ phase = "running"
        /\ pc = "handle"
        /\ cur.status = "file"
        /\ ~config.refresh
        /\ (pc' # pc \/ phase' # phase))
          => queue' = queue \o ExpectedInstances(cur.path)]_vars

\* C11: with refresh enabled, the step that handles a file record of the
\* config file starts the reload (the watcher is told to stop) and does not
\* run the trigger loop: it puts nothing on the queue and unlinks nothing.
\* A backup is only made for a trigger that has matched and put its
\* instance, so an unchanged queue also means that no backup was made.
C11_ConfigRecordReloads ==
    [][(/\ phase = "running"
        /\ pc = "handle"
        /\ config.refresh
        /\ cur.status = "file"
        /\ cur.path = ConfPath
        /\ pc' # pc)
          => (/\ pc' = "reset_clear"
              /\ stop_event'
              /\ queue' = queue
              /\ files' = files
              /\ phase' = phase)]_vars

\* the reload has started for the config record under -e, while a trigger
\* with a backup matches the config file, and nothing has been queued
C11_Witness ==
    /\ phase = "running"
    /\ pc = "reset_clear"
    /\ cur.path = ConfPath
    /\ config.delete
    /\ \E i \in 1..Len(triggers) :
          Match(triggers[i].pattern, ConfPath) /\ triggers[i].backup
    /\ queue = <<>>

\* C12: a dangling event reference never surfaces at dispatch time: the
\* event of every trigger and of every cron rule is a key of the event
\* mapping, and so is the follow-up name a worker looks up when a command
\* has completed.
C12_NoDanglingLookup ==
    [][/\ \A i \in 1..Len(triggers) : triggers[i].event \in DOMAIN events
       /\ \A i \in 1..Len(rules) : rules[i] \in DOMAIN events
       /\ \A w \in BagToSet(workers), w2 \in BagToSet(workers') :
             (Ended(w, w2) /\ w2.stats \in {"success", "fail"}) =>
                 NextEvent(w.event, w2.stats) \in DOMAIN events \cup {""}]_vars

\* C13: a config that yields no trigger and no cron rule is fatal: the
\* engine never runs with an empty trigger list and an empty rule set,
\* in recursive as well as in non-recursive mode.
C13_NothingToWatchIsFatal ==
    phase = "running" => (triggers # <<>> \/ rules # <<>>)

\* the copy of the record's file to the backup path of a matching trigger fails
BackupFails ==
    /\ cur.status = "file"
    /\ ~CopyOk(cur.path)
    /\ \E i \in 1..Len(triggers) :
          Match(triggers[i].pattern, cur.path) /\ triggers[i].backup

\* C14: a backup copy failure does not halt the engine: after the handler
\* step in which the copy fails the engine is still running. The copy is
\* reached for a vanished file only without refresh (with it, samefile has
\* raised before).
C14_BackupFailureKeepsRunning ==
    [][(/\ phase = "running"
        /\ pc = "handle"
        /\ ~config.refresh
        /\ BackupFails)
          => phase' = "running"]_vars

\* the record handler unlinks the file p in this step
Unlinks(p) ==
    /\ pc = "handle"
    /\ pc' = "reading"
    /\ cur.path = p
    /\ p \in files
    /\ p \notin files'

\* an instance whose mapping names the file p
ForFile(item, p) == "file" \in DOMAIN item.mapping /\ item.mapping["file"] = p

\* C15: with -e the unlink of a triggering file never precedes the
\* completion of a command launched for it: when the handler unlinks p, no
\* instance for p is waiting in the queue or running.
C15_DeleteAfterJobs ==
    [][\A p \in DataPaths :
          Unlinks(p) =>
              /\ \A i \in 1..Len(queue') : ~ForFile(queue'[i], p)
              /\ \A w \in BagToSet(workers') :
                    w.state = "running" => ~ForFile(w.event, p)]_vars

\* C16: with -e the engine unlinks only triggering files: the handler
\* unlinks p only if the record matched a trigger and an instance was put.
C16_DeleteOnlyTriggering ==
    [][\A p \in DataPaths :
          Unlinks(p) =>
              (ExpectedInstances(p) # <<>> /\ Len(queue') > Len(queue))]_vars

\* C17: the queue is FIFO and unbounded. Every step either appends to the
\* end of the queue (possibly nothing) or hands the oldest instance, and no
\* other, to a waiting worker; and a put never fails, whatever the length
\* of the queue: a handler step that does not raise appends one instance per
\* matching trigger, a completion with a defined follow-up appends one.
C17_QueueFifo ==
    [][/\ \/ /\ Len(queue') >= Len(queue)
             /\ SubSeq(queue', 1, Len(queue)) = queue
          \/ /\ queue # <<>>
             /\ queue' = Tail(queue)
             /\ \E w \in BagToSet(workers) :
                   /\ w.state = "waiting"
                   /\ workers' = Becomes(w, [w EXCEPT !.state = "running",
                                                      !.event = Head(queue)])
       /\ (pc = "handle" /\ pc' = "reading") =>
             Len(queue') = Len(queue) + Len(ExpectedInstances(cur.path))
       /\ \A w \in BagToSet(workers), w2 \in BagToSet(workers') :
             (/\ Ended(w, w2)
              /\ w2.stats \in {"success", "fail"}
              /\ NextEvent(w.event, w2.stats) \in DOMAIN events) =>
                 Len(queue') = Len(queue) + 1]_vars

\* a worker runs the instance of A that was put first while the instance of
\* D put after it, and more, are still queued
C17_Witness ==
    /\ phase = "running"
    /\ Len(queue) >= 2
    /\ Head(queue).process = "D"
    /\ \E w \in BagToSet(workers) :
          /\ w.state = "running"
          /\ w.event.process = "A"
          /\ w.event.mapping["file"] = Head(queue).mapping["file"]

\* C18: read() is safe next to the watcher thread and does not block the
\* poller. Whenever the poller is about to call or resume read() the lock is
\* free. The buffer changes in two ways only: the watcher thread appends a
\* record at its end, under the lock, or read() removes the oldest record
\* and returns it; so every record is returned once, in arrival order. And
\* read() returns (the poller goes idle) only with the buffer empty.
C18_ReadDrainsInOrder ==
    [][/\ (phase = "running" /\ pc \in {"idle", "reading"}) => lock = "free"
       /\ \/ changes' = changes
          \/ /\ lock = "free"
             /\ Len(changes') = Len(changes) + 1
             /\ SubSeq(changes', 1, Len(changes)) = changes
             /\ pc' = pc
          \/ /\ changes # <<>>
             /\ changes' = Tail(changes)
             /\ cur' = Head(changes)
             /\ pc \in {"idle", "reading"}
             /\ pc' = "handle"
       /\ (pc = "reading" /\ pc' = "idle") => changes = <<>>
       /\ (pc = "handle" /\ pc' = "handle") => cur' = cur]_vars

\* read() has returned the record of data/x, which arrived first, and holds
\* the lock; the record of data/z that the watcher appended after it is
\* still buffered
C18_Witness ==
    /\ phase = "running"
    /\ pc = "handle"
    /\ lock = "read"
    /\ cur = [status |-> "file", path |-> "data/x"]
    /\ changes = <<[status |-> "file", path |-> "data/z"]>>

\* C19: no registered rule is lost by firing: a step of generate() that
\* takes the earliest rule off the rule set yields its firing, which
\* read_cron_event puts on the queue, and re-inserts the rule.
C19_FiringKeepsRule ==
    [][(rules # <<>> /\ rules' # rules) =>
          /\ Len(queue') = Len(queue) + 1
          /\ queue'[Len(queue')].process = Head(rules)
          /\ \E i \in 1..Len(rules') : rules'[i] = Head(rules)]_vars

\* C20: generate() never terminates and every registered rule eventually
\* fires: once the engine is constructed with a rule in the rule set, an
\* instance of the rule's event is eventually on the queue.
C20_RegisteredRuleFires ==
    \A n \in {"E"} :
        (phase = "constructed" /\ \E i \in 1..Len(rules) : rules[i] = n)
            ~> (\E i \in 1..Len(queue) : queue[i].process = n)

\* C21: the log entry of an outcome names a next event only if this
\* execution put a follow-up; in particular the entry that a worker writes
\* for a timed-out instance names no next event, whatever the worker
\* handled before.
C21_TimeoutLogsNoNext ==
    [][\A w \in BagToSet(workers), w2 \in BagToSet(workers') :
          (Ended(w, w2) /\ w2.stats = "Timeout" /\ w2.state = "waiting") =>
              LogNext(w2) = ""]_vars

\* C23: a "mkdir" or "rmdir" record updates bookkeeping only: the step that
\* handles it, with refresh enabled or disabled and whether or not the path
\* still exists, leaves the queue, the trigger list and the event mapping
\* unchanged and the polling loop goes on to the next record.
C23_DirRecordBookkeepingOnly ==
    [][(/\ phase = "running"
        /\ pc = "handle"
        /\ cur.status \in {"mkdir", "rmdir"}
        /\ (pc' # pc \/ phase' # phase))
          => (/\ queue' = queue
              /\ triggers' = triggers
              /\ events' = events
              /\ phase' = "running"
              /\ pc' = "reading")]_vars

\* C22: reset() stops observation and discards all registered watches and
\* buffered records: once the reload branch has called it, reset() returns,
\* and then the watch set and the buffer are empty.
C22_ResetDiscards ==
    (phase = "running" /\ pc = "reset_clear")
        ~> (/\ pc \notin {"reset_clear", "reset_lock"}
            /\ filewatcher.watch_dirs = {}
            /\ changes = <<>>)

\* the rules load_config registers for the document on disk
NewRules == LoadConfig(disk, NewFileWatcher, <<>>, config).rules

WatcherBlocked ==
    /\ watcher_thread.state = "alive"
    /\ raw # <<>>
    /\ Status(Head(raw)) # ""
    /\ lock # "free"

\* C25: the buffer lock is never held while the polling loop handles a
\* record: inside read_file_event's loop body the lock is free, so the
\* event-loop thread never waits in reset() for a lock that its own
\* suspended read() holds, and the watcher thread is never kept waiting for
\* the lock by the handling of a record.
C25_LockFreeWhileHandling ==
    /\ pc \in {"handle", "reset_clear", "reset_lock"} => lock = "free"
    /\ ~(pc = "reset_lock" /\ lock = "read")
    /\ ~(pc \in {"handle", "reset_clear", "reset_lock"} /\ WatcherBlocked)

\* C26: a config whose events are all cron-triggered is accepted, in
\* non-recursive as well as in recursive mode: with a rule registered and no
\* trigger, load_config has not raised.
C26_CronOnlyAccepted ==
    (triggers = <<>> /\ rules # <<>>) => phase \in {"constructed", "running"}

=============================================================================
